---- MODULE Spec2Model ----
(***************************************************************************)
(* The cycle-length forecasting pipeline of ml/scripts: the dataset        *)
(* builder (build_dataset.py), the trainer (train_lstm.py) and the         *)
(* inference smoke test (test_tflite.py), as one state machine over the    *)
(* files they exchange on disk.                                            *)
(*                                                                         *)
(* Numbers.  A feature value is a float.  The model writes a float as an   *)
(* integer count of units of 2^-20, so that 16.0 is 2^24 and 32.0 is 2^25. *)
(* A float32 has 24 significant bits: in [16.0, 32.0) exactly the even     *)
(* counts are float32 values, in [32.0, 64.0) the multiples of 4, and so   *)
(* on.  Every float32 operation of the code is modelled as the exact       *)
(* result rounded to that grid, ties to even, as IEEE 754 prescribes.  The *)
(* inputs are drawn from [16.0, 32.0), where cycle lengths and body-mass   *)
(* indices lie.                                                            *)
(***************************************************************************)
EXTENDS Integers, Sequences, FiniteSets

\* ------------------------------------------------------------------ bounds

\* Longest raw CSV drawn for the builder.
MaxRows == 5
\* Largest number of archived samples drawn for load_data.
MaxSamples == 100
\* Validation losses an epoch may report are 1..MaxLoss (or NaN).
MaxLoss == 10
\* Longest raw CSV drawn for a whole pipeline run.
MaxPipelineRows == 10

\* --------------------------------------------------------------- constants

SEQ_LEN == 3
\* model.fit(epochs=100)
Epochs == 100
\* EarlyStopping(patience=10)
Patience == 10
\* np.nan, and a missing cell of the CSV
NaN == -1
\* float("inf"), the initial `best` of both callbacks
Inf == 1000000

\* A whole number of days or index points in units of 2^-20.
Units(x) == x * 1048576

\* The cell values of the raw CSVs: 28.0 and 30.0 days, and the float32
\* nearest to 25.3 (25 + 314572 / 2^20) and 22.0 as body-mass indices.
Len28 == Units(28)
Len30 == Units(30)
Bmi253 == Units(25) + 314572
Bmi22 == Units(22)

\* The columns of FEATURE_COLS the model keeps: the target column itself,
\* which is FEATURE_COLS[0], and one further feature.
FEATURE_COLS == <<"LengthofCycle", "BMI">>

Row(c, k, l, b) == [ClientID |-> c, CycleNumber |-> k, LengthofCycle |-> l, BMI |-> b]

\* The rows a raw CSV is drawn from: two users, each field missing in some
\* row, two cycle lengths, two body-mass indices.
RawRows ==
    { Row(1, 1, Len28, Bmi253), Row(1, 2, Len30, NaN), Row(2, 1, Len28, Bmi22),
      Row(NaN, 2, Len30, Bmi253), Row(2, NaN, Len28, Bmi253), Row(1, 3, NaN, Bmi253) }

RECURSIVE SeqsUpTo(_, _)
SeqsUpTo(S, n) ==
    IF n = 0 THEN { <<>> }
    ELSE LET shorter == SeqsUpTo(S, n - 1)
         IN  shorter \cup { Append(s, x) : s \in { t \in shorter : Len(t) = n - 1 }, x \in S }

\* ----------------------------------------------------------- float32 grid

\* The spacing of float32 values at magnitude x (x >= 0, in units).
RECURSIVE Ulp(_)
Ulp(x) == IF x < 16777216 THEN 1 ELSE 2 * Ulp(x \div 2)

\* The rational num/den (both positive) rounded to the float32 grid, ties to even.
RoundDiv(num, den) ==
    LET g == Ulp(num \div den)
        m == num \div (den * g)
        rem == num - m * den * g
    IN  IF 2 * rem < den * g THEN m * g
        ELSE IF 2 * rem > den * g THEN (m + 1) * g
        ELSE IF m % 2 = 0 THEN m * g ELSE (m + 1) * g

\* astype(np.float32) of a float64 value; NaN stays NaN.
ToFloat32(x) == IF x = NaN THEN NaN ELSE RoundDiv(x, 1)

\* float32 addition, subtraction and division by a count; NaN propagates.
Add32(a, b) == IF a = NaN \/ b = NaN THEN NaN ELSE RoundDiv(a + b, 1)
Sub32(a, b) == IF a = NaN \/ b = NaN THEN NaN ELSE a - b
Div32(a, n) == IF a = NaN THEN NaN ELSE RoundDiv(a, n)

\* ------------------------------------------------------------- preprocess

Col(rows, c) == [i \in 1..Len(rows) |-> rows[i][c]]

\* The elements of a sequence of numbers in ascending order.
RECURSIVE SortNums(_)
SortNums(s) ==
    IF Len(s) = 0 THEN <<>>
    ELSE LET i == CHOOSE i \in 1..Len(s) : \A j \in 1..Len(s) : s[i] <= s[j]
         IN  <<s[i]>> \o SortNums(SubSeq(s, 1, i - 1) \o SubSeq(s, i + 1, Len(s)))

\* DataFrame.median of one column: NaN cells are skipped, an even count
\* averages the two middle values, an all-NaN column has median NaN.
Median(col) ==
    LET vals == SortNums(SelectSeq(col, LAMBDA v : v # NaN))
        n == Len(vals)
    IN  IF n = 0 THEN NaN
        ELSE IF n % 2 = 1 THEN vals[(n + 1) \div 2]
        ELSE (vals[n \div 2] + vals[n \div 2 + 1]) \div 2

\* num_df.fillna(medians): every numeric column, the target among them.
FillNa(rows) ==
    [i \in 1..Len(rows) |->
        [rows[i] EXCEPT
            !.LengthofCycle = IF @ = NaN THEN Median(Col(rows, "LengthofCycle")) ELSE @,
            !.BMI = IF @ = NaN THEN Median(Col(rows, "BMI")) ELSE @]]

\* df.dropna(subset=[ClientID, CycleNumber, LengthofCycle])
DropNa(rows) ==
    SelectSeq(rows, LAMBDA r : r.ClientID # NaN /\ r.CycleNumber # NaN /\ r.LengthofCycle # NaN)

KeyLeq(a, b) ==
    \/ a.ClientID < b.ClientID
    \/ a.ClientID = b.ClientID /\ a.CycleNumber <= b.CycleNumber

\* A sort_values that leaves the rows in file order.
SortValuesKeepsFileOrder(rows) == rows

\* df.sort_values([ClientID, CycleNumber]): rows with equal keys keep their order.
RECURSIVE SortValues(_)
SortValues(rows) ==
    IF Len(rows) = 0 THEN <<>>
    ELSE LET head == SortValues(SubSeq(rows, 1, Len(rows) - 1))
             last == rows[Len(rows)]
             k == Cardinality({ i \in 1..Len(head) : KeyLeq(head[i], last) })
         IN  SubSeq(head, 1, k) \o <<last>> \o SubSeq(head, k + 1, Len(head))

preprocess(rows) == SortValues(DropNa(FillNa(rows)))


\* -------------------------------------------------------- build_sequences

\* feat = df[FEATURE_COLS].to_numpy(dtype=np.float32)
feat(rows) == [i \in 1..Len(rows) |-> <<ToFloat32(rows[i].LengthofCycle), ToFloat32(rows[i].BMI)>>]

\* target = df[TARGET_COL].to_numpy(dtype=np.float32)
target(rows) == [i \in 1..Len(rows) |-> ToFloat32(rows[i].LengthofCycle)]

\* The guard with SEQ_LEN + 1 for SEQ_LEN.
NotEnoughRowsOffByOne(n_rows) == n_rows <= SEQ_LEN + 1

\* if n_rows <= SEQ_LEN: raise ValueError
NotEnoughRows(n_rows) == n_rows <= SEQ_LEN

\* The values of `start` whose sample the loop keeps, in loop order: start runs
\* over range(0, n_rows - SEQ_LEN) and a NaN target is skipped.
Starts(rows) ==
    LET n_rows == Len(rows)
        all == [i \in 1..(IF n_rows > SEQ_LEN THEN n_rows - SEQ_LEN ELSE 0) |-> i - 1]
    IN  SelectSeq(all, LAMBDA start : target(rows)[start + SEQ_LEN + 1] # NaN)

\* X_seq = feat[start:end, :] with end = start + SEQ_LEN (0-based, end excluded).
Window(rows, start) == SubSeq(feat(rows), start + 1, start + SEQ_LEN)

\* The target read at end - 1, the last row of the window.
NextValueInsideWindow(rows, start) == target(rows)[start + SEQ_LEN]

\* y_val = target[end] (0-based)
NextValue(rows, start) == target(rows)[start + SEQ_LEN + 1]

build_sequences_raises(rows) == NotEnoughRows(Len(rows)) \/ Starts(SortValues(rows)) = <<>>

build_sequences(rows) ==
    LET sorted == SortValues(rows)
        starts == Starts(sorted)
    IN  [X |-> [i \in 1..Len(starts) |-> Window(sorted, starts[i])],
         y |-> [i \in 1..Len(starts) |-> NextValue(sorted, starts[i])],
         origin |-> [i \in 1..Len(starts) |-> [start |-> starts[i], end |-> starts[i] + SEQ_LEN]]]

\* ----------------------------------------------------- normalize_features

\* Statistics over the first 70% of the samples only.
FlatSamplesTrainOnly(N) == 1..((7 * N) \div 10)

\* The samples whose rows flat = X.reshape(N * T, F) holds: all N of them.
FlatSamples(N) == 1..N

\* flat = X.reshape(N * T, F): the T rows of sample 1, then those of sample 2, ...
Flat(X) ==
    LET T == SEQ_LEN
        n == Cardinality(FlatSamples(Len(X)))
    IN  [r \in 1..(n * T) |-> X[((r - 1) \div T) + 1][((r - 1) % T) + 1]]

\* The float32 sum of the first k cells of a column, added in row order.
RECURSIVE Sum32(_, _)
Sum32(col, k) == IF k = 0 THEN 0 ELSE Add32(Sum32(col, k - 1), col[k])

\* flat.mean(axis=0) for one feature: the float32 sum divided by the row count
\* (NaN, 0/0, over no rows).
Mean32(col) == IF Len(col) = 0 THEN NaN ELSE Div32(Sum32(col, Len(col)), Len(col))

\* flat - mean for one feature.
Deviations(col, m) == [r \in 1..Len(col) |-> Sub32(col[r], m)]

\* flat.std(axis=0) for one feature, as the model writes a standard deviation:
\* "0.0" when every squared deviation is zero, "nan" when a cell is NaN, and
\* "rms" for the positive root of the mean squared deviation otherwise.
Std32(col) ==
    LET dev == Deviations(col, Mean32(col))
    IN  IF Len(col) = 0 \/ \E r \in 1..Len(col) : dev[r] = NaN THEN "nan"
        ELSE IF \A r \in 1..Len(col) : dev[r] = 0 THEN "0.0"
        ELSE "rms"

\* std[std == 0] = 1.0
ClampStd(s) == IF s = "0.0" THEN "1.0" ELSE s

\* normalize_features.  A cell of X_norm is written as its numerator
\* x - mean[f]; its value is that numerator divided by std[f], so it is zero
\* exactly when the numerator is, and NaN when the numerator is.
normalize_features(X) ==
    LET flat == Flat(X)
        F == Len(FEATURE_COLS)
        col(f) == [r \in 1..Len(flat) |-> flat[r][f]]
        mean == [f \in 1..F |-> Mean32(col(f))]
        std == [f \in 1..F |-> ClampStd(Std32(col(f)))]
    IN  [X_norm |-> [i \in 1..Len(X) |-> [t \in 1..SEQ_LEN |-> [f \in 1..F |->
                        Sub32(X[i][t][f], mean[f])]]],
         mean |-> mean,
         std |-> std,
         samples |-> FlatSamples(Len(X))]


\* -------------------------------------------------------------- load_data

RECURSIVE Log2Floor(_)
Log2Floor(k) == IF k < 2 THEN 0 ELSE 1 + Log2Floor(k \div 2)

RECURSIVE Pow2(_)
Pow2(e) == IF e = 0 THEN 1 ELSE 2 * Pow2(e - 1)

\* int(0.7 * n).  The float64 nearest to 0.7 is 0.7 - 1/(5 * 2^51), so the
\* exact product is 7n/10 - n/(5 * 2^51), which the multiplication rounds to 53
\* significant bits.  When 7n/10 is not an integer the rounding cannot cross
\* one and truncation gives floor(7n/10).  When 7n/10 is an integer k, the
\* product lies below k by n/(5 * 2^51); the floats next to k from below
\* are 2^(e-52) apart, with 2^e the largest power of two below k, so the
\* product rounds to k only if n/(5 * 2^51) <= 2^(e-53), that is 2n <= 5 * 2^e,
\* and to a float below k otherwise, which int() truncates to k - 1.
TruncMul07(n) ==
    LET k == (7 * n) \div 10
        e == IF Pow2(Log2Floor(k)) = k THEN Log2Floor(k) - 1 ELSE Log2Floor(k)
    IN  IF (7 * n) % 10 = 0 /\ k > 0 /\ 2 * n > 5 * Pow2(e) THEN k - 1 ELSE k

\* int(0.15 * n).  The float64 nearest to 0.15 is 0.15 - 1/(5 * 2^55): the
\* product lies below 3n/20 by n/(5 * 2^55), less than half the spacing of the
\* floats at 3n/20 for every n, so it rounds back to 3n/20 whenever that is an
\* integer, and truncation gives floor(3n/20).
TruncMul015(n) == (3 * n) \div 20

\* X[a:b] of a sequence (0-based, b excluded, clipped to the length).
Slice(s, a, b) == SubSeq(s, a + 1, IF b < Len(s) THEN b ELSE Len(s))

load_data(archive) ==
    LET n == Len(archive.X)
        n_train == TruncMul07(n)
        n_val == TruncMul015(n)
    IN  [n_train |-> n_train, n_val |-> n_val,
         X_train |-> Slice(archive.X, 0, n_train),
         y_train |-> Slice(archive.y, 0, n_train),
         X_val |-> Slice(archive.X, n_train, n_train + n_val),
         y_val |-> Slice(archive.y, n_train, n_train + n_val),
         X_test |-> Slice(archive.X, n_train + n_val, n),
         y_test |-> Slice(archive.y, n_train + n_val, n)]

\* ------------------------------------------------------------------ state

VARIABLES
    raw,        \* the rows of data/raw/menstrual_cycle_data.csv
    disk,       \* the files the scripts exchange: <<>> is a missing file
    bpc,        \* the builder's position in main()
    df,         \* the builder's data frame
    seqs,       \* what build_sequences returned: X, y (and the loop's start, end)
    norm,       \* what normalize_features returned
    tpc,        \* the trainer's position in train()
    split,      \* what load_data returned
    fit,        \* model.fit: the epoch count and the state of the two callbacks
    best_model, \* the model train() loaded from the checkpoint
    spc,        \* the smoke test's position in main()
    raised,     \* the steps that raised an exception so far
    io          \* how often each file was written and read in this run

vars == <<raw, disk, bpc, df, seqs, norm, tpc, split, fit, best_model, spc, raised, io>>

\* A file left by an earlier run of the pipeline.
OldArchive == [run |-> "old", X |-> <<>>, y |-> <<>>, mean |-> <<>>, std |-> <<>>]
OldModel == [run |-> "old", val_loss |-> 1]

NoSeqs == [X |-> <<>>, y |-> <<>>, origin |-> <<>>]
NoNorm == [X_norm |-> <<>>, mean |-> <<>>, std |-> <<>>, samples |-> {}]
NoSplit == [n_train |-> 0, n_val |-> 0, X_train |-> <<>>, y_train |-> <<>>,
            X_val |-> <<>>, y_val |-> <<>>, X_test |-> <<>>, y_test |-> <<>>]
NoFit == [epoch |-> 0, wait |-> 0, es_best |-> Inf, ck_best |-> Inf,
          stop_training |-> FALSE, min_seen |-> Inf]
NoIo == [archive_w |-> 0, archive_r |-> 0, ckpt_w |-> 0, ckpt_r |-> 0,
         saved_w |-> 0, tflite_w |-> 0, tflite_r |-> 0]

\* The state before any script runs: `rows` in the CSV, `files` on disk.
Start(rows, files) ==
    /\ raw = rows
    /\ disk = files
    /\ bpc = "start" /\ tpc = "start" /\ spc = "start"
    /\ df = <<>> /\ seqs = NoSeqs /\ norm = NoNorm
    /\ split = NoSplit /\ fit = NoFit /\ best_model = <<>>
    /\ raised = {} /\ io = NoIo

\* -------------------------------------------------- exceptions

\* A try/except around every step.
CatchesEveryStep(step) == TRUE

\* The only try/except of the three scripts wraps converter.convert() and the
\* write of the binary in train().
Catches(step) == step = "convert"

\* ------------------------------------------------------- build_dataset.main

BuilderLocals == <<df, seqs, norm>>
TrainerState == <<tpc, split, fit, best_model>>

\* df = load_raw()
LoadRaw ==
    /\ bpc = "start"
    /\ df' = raw
    /\ bpc' = "loaded"
    /\ UNCHANGED <<raw, disk, seqs, norm, TrainerState, spc, raised, io>>

\* df = preprocess(df)
Preprocess ==
    /\ bpc = "loaded"
    /\ df' = preprocess(df)
    /\ bpc' = "preprocessed"
    /\ UNCHANGED <<raw, disk, seqs, norm, TrainerState, spc, raised, io>>

\* X, y = build_sequences(df): a ValueError is not caught and ends main().
BuildSequences ==
    /\ bpc = "preprocessed"
    /\ IF build_sequences_raises(df)
       THEN /\ raised' = raised \cup {"build_sequences"}
            /\ bpc' = IF Catches("build_sequences") THEN "sequenced" ELSE "failed"
            /\ seqs' = seqs
       ELSE /\ seqs' = build_sequences(df)
            /\ bpc' = "sequenced"
            /\ raised' = raised
    /\ UNCHANGED <<raw, disk, df, norm, TrainerState, spc, io>>

\* X_norm, mean, std = normalize_features(X)
Normalize ==
    /\ bpc = "sequenced"
    /\ norm' = normalize_features(seqs.X)
    /\ bpc' = "normalized"
    /\ UNCHANGED <<raw, disk, df, seqs, TrainerState, spc, raised, io>>

\* np.savez(OUT_PATH, X=X_norm, y=y, mean=mean, std=std, ...)
SaveArchive ==
    /\ bpc = "normalized"
    /\ disk' = [disk EXCEPT !.archive =
                   <<[run |-> "this", X |-> norm.X_norm, y |-> seqs.y,
                      mean |-> norm.mean, std |-> norm.std]>>]
    /\ io' = [io EXCEPT !.archive_w = @ + 1]
    /\ bpc' = "done"
    /\ UNCHANGED <<raw, df, seqs, norm, TrainerState, spc, raised>>

\* ------------------------------------------------------ train_lstm.train

\* load_data(): np.load raises when the archive is missing.  The trainer is
\* run after the builder has completed.
LoadData ==
    /\ bpc = "done" /\ tpc = "start"
    /\ IF disk.archive = <<>>
       THEN /\ raised' = raised \cup {"load_data"}
            /\ tpc' = IF Catches("load_data") THEN "loaded" ELSE "failed"
            /\ UNCHANGED <<split, io>>
       ELSE /\ split' = load_data(disk.archive[1])
            /\ io' = [io EXCEPT !.archive_r = @ + 1]
            /\ tpc' = "loaded"
            /\ raised' = raised
    /\ UNCHANGED <<raw, disk, bpc, BuilderLocals, fit, best_model, spc>>

\* np.less_equal in place of np.less.
LessEqual(current, best) == current # NaN /\ current <= best

\* np.less(current, best), which is False for a NaN loss.
Less(current, best) == current # NaN /\ current < best

\* Whether a cell of the archived tensor is NaN.
HasNaN(X) == \E i \in 1..Len(X) : \E t \in 1..SEQ_LEN : \E f \in 1..Len(FEATURE_COLS) : X[i][t][f] = NaN

\* The val_loss an epoch may report: NaN when the network is fed a NaN, and
\* otherwise any of the loss levels, or NaN when training has diverged.
ValLosses == IF HasNaN(disk.archive[1].X) THEN {NaN} ELSE (1..MaxLoss) \cup {NaN}

\* One epoch of model.fit and the on_epoch_end of callbacks=[early_stopping_cb,
\* checkpoint_cb], the epoch having reported val_loss.
\*   EarlyStopping(monitor="val_loss", patience=10, mode="min"): wait += 1; an
\*   improvement on best resets wait; otherwise wait >= patience stops training.
\*   ModelCheckpoint(save_best_only=True, monitor="val_loss", mode="min"): an
\*   improvement on best overwrites the checkpoint file with this epoch's model.
FitEpoch ==
    /\ tpc = "loaded"
    /\ Len(split.X_train) > 0
    /\ ~fit.stop_training /\ fit.epoch < Epochs
    /\ \E val_loss \in ValLosses :
        /\ fit' = [epoch |-> fit.epoch + 1,
                   wait |-> IF Less(val_loss, fit.es_best) THEN 0 ELSE fit.wait + 1,
                   es_best |-> IF Less(val_loss, fit.es_best) THEN val_loss ELSE fit.es_best,
                   ck_best |-> IF Less(val_loss, fit.ck_best) THEN val_loss ELSE fit.ck_best,
                   stop_training |-> /\ ~Less(val_loss, fit.es_best)
                                     /\ fit.wait + 1 >= Patience
                                     /\ fit.epoch > 0,
                   min_seen |-> IF val_loss # NaN /\ val_loss < fit.min_seen
                                THEN val_loss ELSE fit.min_seen]
        /\ IF Less(val_loss, fit.ck_best)
           THEN /\ disk' = [disk EXCEPT !.ckpt = <<[run |-> "this", val_loss |-> val_loss]>>]
                /\ io' = [io EXCEPT !.ckpt_w = @ + 1]
           ELSE UNCHANGED <<disk, io>>
    /\ UNCHANGED <<raw, bpc, BuilderLocals, tpc, split, best_model, spc, raised>>

\* model.fit raises before its first epoch, as it does on an empty training
\* partition (FitEpoch needs a sample to train on): nothing in train() catches it.
FitRaises ==
    /\ tpc = "loaded" /\ fit.epoch = 0
    /\ raised' = raised \cup {"fit"}
    /\ tpc' = IF Catches("fit") THEN "fitted" ELSE "failed"
    /\ UNCHANGED <<raw, disk, bpc, BuilderLocals, split, fit, best_model, spc, io>>

\* model.fit returns: early stopping asked for it, or epochs=100 are done.
FitEnd ==
    /\ tpc = "loaded"
    /\ fit.stop_training \/ fit.epoch = Epochs
    /\ tpc' = "fitted"
    /\ UNCHANGED <<raw, disk, bpc, BuilderLocals, split, fit, best_model, spc, raised, io>>

\* best_model = tf.keras.models.load_model(checkpoint_path): raises when no
\* checkpoint file exists.
LoadBestModel ==
    /\ tpc = "fitted"
    /\ IF disk.ckpt = <<>>
       THEN /\ raised' = raised \cup {"load_model"}
            /\ tpc' = IF Catches("load_model") THEN "best_loaded" ELSE "failed"
            /\ UNCHANGED <<best_model, io>>
       ELSE /\ best_model' = disk.ckpt
            /\ io' = [io EXCEPT !.ckpt_r = @ + 1]
            /\ tpc' = "best_loaded"
            /\ raised' = raised
    /\ UNCHANGED <<raw, disk, bpc, BuilderLocals, split, fit, spc>>

\* best_model.save(saved_model_dir)
SaveModel ==
    /\ tpc = "best_loaded"
    /\ disk' = [disk EXCEPT !.saved = best_model]
    /\ io' = [io EXCEPT !.saved_w = @ + 1]
    /\ tpc' = "saved"
    /\ UNCHANGED <<raw, bpc, BuilderLocals, split, fit, best_model, spc, raised>>

\* converter = TFLiteConverter.from_saved_model(saved_model_dir); inside the
\* try: converter.convert() and the write of cycle_lstm.tflite.  The except
\* clause prints the exception and train() returns normally.
ConvertToTflite ==
    /\ tpc = "saved"
    /\ \E converts \in BOOLEAN :
        IF converts
        THEN /\ disk' = [disk EXCEPT !.tflite = disk.saved]
             /\ io' = [io EXCEPT !.tflite_w = @ + 1]
             /\ tpc' = "done"
             /\ raised' = raised
        ELSE /\ raised' = raised \cup {"convert"}
             /\ tpc' = IF Catches("convert") THEN "done" ELSE "failed"
             /\ UNCHANGED <<disk, io>>
    /\ UNCHANGED <<raw, bpc, BuilderLocals, split, fit, best_model, spc>>

\* ------------------------------------------------------- test_tflite.main

\* data = np.load(data_path).  The smoke test is run after train() returned.
SmokeLoadData ==
    /\ tpc = "done" /\ spc = "start"
    /\ IF disk.archive = <<>>
       THEN /\ raised' = raised \cup {"smoke_load_data"}
            /\ spc' = IF Catches("smoke_load_data") THEN "data_loaded" ELSE "failed"
            /\ io' = io
       ELSE /\ io' = [io EXCEPT !.archive_r = @ + 1]
            /\ spc' = "data_loaded"
            /\ raised' = raised
    /\ UNCHANGED <<raw, disk, bpc, BuilderLocals, TrainerState>>

\* keras_model = tf.keras.models.load_model(keras_model_path)
SmokeLoadKeras ==
    /\ spc = "data_loaded"
    /\ IF disk.ckpt = <<>>
       THEN /\ raised' = raised \cup {"smoke_load_model"}
            /\ spc' = IF Catches("smoke_load_model") THEN "keras_loaded" ELSE "failed"
            /\ io' = io
       ELSE /\ io' = [io EXCEPT !.ckpt_r = @ + 1]
            /\ spc' = "keras_loaded"
            /\ raised' = raised
    /\ UNCHANGED <<raw, disk, bpc, BuilderLocals, TrainerState>>

\* interpreter = tf.lite.Interpreter(model_path=tflite_model_path): raises when
\* the binary is missing; then one sample is run through both models.
SmokeLoadTflite ==
    /\ spc = "keras_loaded"
    /\ IF disk.tflite = <<>>
       THEN /\ raised' = raised \cup {"smoke_interpreter"}
            /\ spc' = IF Catches("smoke_interpreter") THEN "done" ELSE "failed"
            /\ io' = io
       ELSE /\ io' = [io EXCEPT !.tflite_r = @ + 1]
            /\ spc' = "done"
            /\ raised' = raised
    /\ UNCHANGED <<raw, disk, bpc, BuilderLocals, TrainerState>>

\* ------------------------------------------------------- specifications

NoFiles == [archive |-> <<>>, ckpt |-> <<>>, saved |-> <<>>, tflite |-> <<>>]
OldFiles == [archive |-> <<OldArchive>>, ckpt |-> <<OldModel>>,
             saved |-> <<OldModel>>, tflite |-> <<OldModel>>]

\* The builder, then the trainer's load_data, on every CSV of at most MaxRows
\* rows of RawRows, on an empty disk or on the files of an earlier run.
InitData == \E rows \in SeqsUpTo(RawRows, MaxRows), files \in {NoFiles, OldFiles} : Start(rows, files)

NextData == LoadRaw \/ Preprocess \/ BuildSequences \/ Normalize \/ SaveArchive \/ LoadData

SpecData == InitData /\ [][NextData]_vars

\* A CSV of n rows, not in sorted order: two users in turn, cycle numbers
\* descending, every BMI cell holding bmi.
PipelineRows(n, bmi) ==
    [i \in 1..n |-> Row(1 + (i % 2), n - i, IF i % 3 = 0 THEN Len28 ELSE Len30, bmi)]

\* One run of the whole pipeline: builder, trainer, smoke test, on a CSV of at
\* most MaxPipelineRows rows whose BMI column is filled or empty, on an empty
\* disk or on the files of an earlier run.
Init ==
    \E n \in 0..MaxPipelineRows, bmi \in {Bmi253, NaN}, files \in {NoFiles, OldFiles} :
        Start(PipelineRows(n, bmi), files)

Next ==
    \/ LoadRaw \/ Preprocess \/ BuildSequences \/ Normalize \/ SaveArchive
    \/ LoadData \/ FitEpoch \/ FitRaises \/ FitEnd \/ LoadBestModel \/ SaveModel \/ ConvertToTflite
    \/ SmokeLoadData \/ SmokeLoadKeras \/ SmokeLoadTflite

Spec == Init /\ [][Next]_vars

\* An archive of n samples as the builder leaves it, sample i written i and
\* its label written i.
ArchiveOf(n) == [run |-> "this", X |-> [i \in 1..n |-> i], y |-> [i \in 1..n |-> i],
                 mean |-> <<>>, std |-> <<>>]

\* load_data on an archive of every size up to MaxSamples.
InitSplit ==
    \E n \in 0..MaxSamples :
        /\ raw = <<>>
        /\ disk = [NoFiles EXCEPT !.archive = <<ArchiveOf(n)>>]
        /\ bpc = "done" /\ tpc = "start" /\ spc = "start"
        /\ df = <<>> /\ seqs = NoSeqs /\ norm = NoNorm
        /\ split = NoSplit /\ fit = NoFit /\ best_model = <<>>
        /\ raised = {} /\ io = [NoIo EXCEPT !.archive_w = 1]

SpecSplit == InitSplit /\ [][LoadData]_vars


\* ------------------------------------------------------------ properties

Sequenced == bpc \in {"sequenced", "normalized", "done"}
Preprocessed == bpc \in {"preprocessed", "sequenced", "normalized", "done", "failed"}

\* The row of df (1-based) as the float32 feature row the builder feeds the model.
FeatureRow(r) == <<ToFloat32(df[r].LengthofCycle), ToFloat32(df[r].BMI)>>

\* C1: over the frame sorted by (ClientID, CycleNumber), build_sequences returns
\* exactly n - 3 samples for n > 3 rows; sample i (0-based) is the feature rows
\* i, i+1, i+2 in that order, and its label is the LengthofCycle of row i+3.
C1_SlidingWindow ==
    Sequenced =>
        /\ \A r \in 1..(Len(df) - 1) : KeyLeq(df[r], df[r + 1])
        /\ Len(df) > SEQ_LEN
        /\ Len(seqs.X) = Len(df) - SEQ_LEN
        /\ Len(seqs.y) = Len(df) - SEQ_LEN
        /\ \A i \in 1..Len(seqs.X) :
            /\ seqs.X[i] = <<FeatureRow(i), FeatureRow(i + 1), FeatureRow(i + 2)>>
            /\ seqs.y[i] = ToFloat32(df[i + 3].LengthofCycle)

\* C1 witness: two samples were built from a CSV whose rows were not in order,
\* and the second label differs from the last row of its window.
C1_Witness ==
    /\ bpc = "sequenced"
    /\ Len(seqs.X) = 2
    /\ DropNa(FillNa(raw)) # df
    /\ seqs.y[2] # seqs.X[2][SEQ_LEN][1]

\* The rows of df (1-based) that sample i was cut from: the loop's start..end,
\* the window and the row of the target.
SampleRows(i) == (seqs.origin[i].start + 1)..(seqs.origin[i].end + 1)

\* C2 as stated: the three rows of every window and the row of its target have
\* one ClientID.
C2_OnePersonPerSample ==
    Sequenced =>
        \A i \in 1..Len(seqs.X) : \A r \in SampleRows(i) :
            df[r].ClientID = df[seqs.origin[i].start + 1].ClientID

\* C2 amended: every sample is four consecutive rows of the frame sorted by
\* (ClientID, CycleNumber), user boundaries ignored: sample i starts at row i,
\* its ClientIDs never decrease from one row to the next, and the four rows are
\* one person's exactly when the first and the last are.
C2_ConsecutiveSortedRows ==
    Sequenced =>
        \A i \in 1..Len(seqs.X) :
            /\ seqs.origin[i].start = i - 1
            /\ seqs.origin[i].end = seqs.origin[i].start + SEQ_LEN
            /\ seqs.origin[i].end + 1 <= Len(df)
            /\ \A r \in SampleRows(i) \ {seqs.origin[i].end + 1} :
                df[r].ClientID <= df[r + 1].ClientID
            /\ seqs.X[i] = [t \in 1..SEQ_LEN |-> FeatureRow(seqs.origin[i].start + t)]
            /\ seqs.y[i] = ToFloat32(df[seqs.origin[i].end + 1].LengthofCycle)

\* C2 witness: a sample whose window belongs to one user and whose target
\* belongs to another.
C2_Witness ==
    /\ Sequenced
    /\ \E i \in 1..Len(seqs.X) :
        /\ df[seqs.origin[i].start + 1].ClientID = df[seqs.origin[i].end].ClientID
        /\ df[seqs.origin[i].end].ClientID # df[seqs.origin[i].end + 1].ClientID

\* The column of feature f of the flattened tensor normalize_features was given.
FlatCol(f) == [r \in 1..Len(Flat(seqs.X)) |-> Flat(seqs.X)[r][f]]

ConstantCol(col) == col[1] # NaN /\ \A r \in 1..Len(col) : col[r] = col[1]

\* C3 as stated: no entry of std is zero, a feature that is constant over all
\* N*T flattened rows gets std 1 and is normalized to 0 in every position, and
\* X_norm has the shape (N, T, F) of X.
C3_ConstantFeatureClamped ==
    bpc \in {"normalized", "done"} =>
        /\ Len(norm.X_norm) = Len(seqs.X)
        /\ \A i \in 1..Len(norm.X_norm) :
            /\ Len(norm.X_norm[i]) = SEQ_LEN
            /\ \A t \in 1..SEQ_LEN : Len(norm.X_norm[i][t]) = Len(FEATURE_COLS)
        /\ \A f \in 1..Len(FEATURE_COLS) :
            /\ norm.std[f] # "0.0"
            /\ ConstantCol(FlatCol(f)) =>
                /\ norm.std[f] = "1.0"
                /\ \A i \in 1..Len(norm.X_norm) : \A t \in 1..SEQ_LEN :
                    norm.X_norm[i][t][f] = 0

\* C4 as stated: only samples of the trainer's training partition contribute to
\* the archived mean and std.
C4_StatisticsFromTrainOnly ==
    tpc = "loaded" => norm.samples \subseteq 1..split.n_train

\* C4 amended: every archived sample contributes to the archived mean and std,
\* those the trainer places in its validation and test partitions included.
C4_StatisticsFromAllSamples ==
    tpc = "loaded" =>
        /\ norm.samples = 1..Len(disk.archive[1].X)
        /\ Cardinality(norm.samples) = Len(split.X_train) + Len(split.X_val) + Len(split.X_test)
        /\ disk.archive[1].mean = [f \in 1..Len(FEATURE_COLS) |-> Mean32(FlatCol(f))]

\* C4 witness: the trainer holds a training sample and a test sample, both of
\* which went into the statistics.
C4_Witness ==
    /\ tpc = "loaded"
    /\ Len(split.X_train) >= 1 /\ Len(split.X_test) >= 1
    /\ Cardinality(norm.samples) = 2

\* C5 as stated: n_train = floor(0.7 n), n_val = floor(0.15 n), and the three
\* partitions are the contiguous runs 0..n_train-1, n_train..n_train+n_val-1 and
\* the rest, of X and of y alike.
C5_SplitByPosition ==
    tpc = "loaded" =>
        LET X == disk.archive[1].X
            y == disk.archive[1].y
            n == Len(X)
        IN  /\ split.n_train = (7 * n) \div 10
            /\ split.n_val = (3 * n) \div 20
            /\ split.X_train \o split.X_val \o split.X_test = X
            /\ split.y_train \o split.y_val \o split.y_test = y
            /\ Len(split.X_train) = split.n_train /\ Len(split.y_train) = split.n_train
            /\ Len(split.X_val) = split.n_val /\ Len(split.y_val) = split.n_val

\* C6 as stated: the model train() loads from the checkpoint and exports is this
\* run's model of the minimum validation loss, and the TFLite binary train()
\* leaves is converted from it.
C6_ExportsBestOfThisRun ==
    /\ tpc \in {"best_loaded", "saved", "done"} =>
        best_model = <<[run |-> "this", val_loss |-> fit.min_seen]>>
    /\ tpc \in {"saved", "done"} => disk.saved = best_model
    /\ tpc = "done" => disk.tflite = best_model

BuilderSteps == {"build_sequences"}
UncaughtTrainerSteps == {"load_data", "fit", "load_model"}
SmokeSteps == {"smoke_load_data", "smoke_load_model", "smoke_interpreter"}

C8_CreateOnceReadOnce ==
    /\ io.archive_w <= 1 /\ io.ckpt_w <= 1 /\ io.tflite_w <= 1
    /\ io.archive_r <= 1 /\ io.ckpt_r <= 1 /\ io.tflite_r <= 1
    /\ io.archive_r > 0 => io.archive_w = 1
    /\ io.ckpt_r > 0 => io.ckpt_w = 1
    /\ io.tflite_r > 0 => io.tflite_w = 1
    /\ spc = "done" =>
        /\ io.archive_w = 1 /\ io.ckpt_w = 1 /\ io.tflite_w = 1
        /\ io.archive_r = 1 /\ io.ckpt_r = 1 /\ io.tflite_r = 1

\* C8 amended: data flows forward.  The archive is written once, by the
\* builder, before any read, and is read twice: by load_data and by the smoke
\* test.  The checkpoint is overwritten by every epoch whose val_loss is below
\* every earlier one, so it is written as often as the loss improved; it is read
\* after training, by train() and by the smoke test, whether this run wrote it
\* or an earlier one.  The binary is written at most once, after the SavedModel
\* directory, and read at most once, by the smoke test.
C8_ForwardFlow ==
    /\ io.archive_w = (IF bpc = "done" THEN 1 ELSE 0)
    /\ io.archive_r <= 2
    /\ io.archive_r > 0 => io.archive_w = 1 /\ disk.archive[1].run = "this"
    /\ io.archive_r = 2 <=> spc # "start"
    /\ io.ckpt_w <= fit.epoch
    /\ io.ckpt_w = 0 <=> fit.ck_best = Inf
    /\ io.ckpt_w > 0 =>
        /\ io.ckpt_w <= MaxLoss + 1 - fit.ck_best
        /\ disk.ckpt = <<[run |-> "this", val_loss |-> fit.ck_best]>>
    /\ io.ckpt_r <= 2
    /\ io.ckpt_r > 0 <=> tpc \in {"best_loaded", "saved", "done"}
    /\ io.ckpt_r = 2 <=> spc \in {"keras_loaded", "done", "failed"}
    /\ io.saved_w = (IF tpc \in {"saved", "done"} THEN 1 ELSE 0)
    /\ io.tflite_w <= 1
    /\ io.tflite_w = 1 => tpc = "done" /\ io.saved_w = 1 /\ disk.tflite = disk.saved
    /\ io.tflite_r = (IF spc = "done" THEN 1 ELSE 0)

\* C8 witness: the smoke test has ended, the checkpoint was written three times
\* and read twice, and the archive was read twice.
C8_Witness ==
    /\ spc = "done"
    /\ io.ckpt_w = 3 /\ io.ckpt_r = 2 /\ io.archive_r = 2 /\ io.archive_w = 1
    /\ io.tflite_w = 1 /\ io.tflite_r = 1

\* The rows of the raw CSV that miss none of ClientID, CycleNumber, LengthofCycle.
CompleteRaw == DropNa(raw)

\* C9 as stated: preprocess returns exactly the raw rows that miss none of
\* ClientID, CycleNumber and LengthofCycle, each with the target it had.
C9_RowsMissingTargetDropped ==
    Preprocessed =>
        /\ Len(df) = Len(CompleteRaw)
        /\ \A i \in 1..Len(df) : \E j \in 1..Len(CompleteRaw) :
            /\ df[i].ClientID = CompleteRaw[j].ClientID
            /\ df[i].CycleNumber = CompleteRaw[j].CycleNumber
            /\ df[i].LengthofCycle = CompleteRaw[j].LengthofCycle

\* C10: build_sequences raises exactly when the preprocessed frame has 3 rows or
\* fewer; main() then ends with no samples, no statistics and no write, so the
\* archive on disk is the one that was there before (or none); with more than 3
\* rows nothing is raised.
C10_TooFewRowsStopsBuilder ==
    /\ Sequenced => Len(df) > SEQ_LEN /\ "build_sequences" \notin raised
    /\ bpc = "failed" =>
        /\ Len(df) <= SEQ_LEN
        /\ "build_sequences" \in raised
        /\ seqs = NoSeqs /\ norm = NoNorm
        /\ io.archive_w = 0
        /\ disk \in {NoFiles, OldFiles}

\* C10 witness: main() has stopped on a frame of exactly 3 rows and the archive
\* of the earlier run is still on disk.
C10_Witness ==
    /\ bpc = "failed" /\ Len(df) = SEQ_LEN /\ Len(raw) = 5
    /\ disk.archive = <<OldArchive>>

====
